---- MODULE Spec2Model ----
(***************************************************************************)
(* Model of cv2_show.py: best_grid, visualize_grayscale_negative_values,   *)
(* show_image and show_images_grid.                                        *)
(*                                                                         *)
(* A call is a small state machine: pc is the position in the function,    *)
(* one action per statement group, and an exception ends the call in       *)
(* pc = "error".  Arrays are kept lazily: an array is its shape, its dtype,*)
(* a background value and the list of blocks written into it, a block      *)
(* being a small sample matrix stretched by nearest-neighbour resize.      *)
(* Samples are exact rationals n/d; e = 1 marks a value that was divided   *)
(* by the bare eps of the normalisation (1e-15), i.e. n/d * 10^15.         *)
(***************************************************************************)
EXTENDS Integers, Sequences, FiniteSets

VARIABLES op, args, pc, err, geo, grid_image, cell, image,
          resizeCalls, imshowCalls, shown, wait_ms, key, result

vars == <<op, args, pc, err, geo, grid_image, cell, image,
          resizeCalls, imshowCalls, shown, wait_ms, key, result>>

----------------------------------------------------------------------------
(* Bounds of the model *)

MaxN == 7
\* largest batch length N drawn for show_images_grid

MaxDim == 2
\* largest source image height / width drawn

MaxGridN == 100
\* largest N drawn for a direct best_grid call

(* Program constants *)

DESIRED_HEIGHT == 500

KEY_ESCAPE == 27

KEY_Q == 113

SCALE_MAX == 255

----------------------------------------------------------------------------
(* Exact rational samples *)

Num(i) == [n |-> i, d |-> 1, e |-> 0]

Rat(a, b) == [n |-> a, d |-> b, e |-> 0]

IsNeg(v) == v.n < 0

IsZero(v) == v.n = 0

Neg(v) == [v EXCEPT !.n = -v.n]

AbsV(v) == IF v.n < 0 THEN Neg(v) ELSE v

\* a < b, for values of the same eps-exponent
Less(a, b) == a.n * b.d < b.n * a.d

Same(a, b) == a.e = b.e /\ a.n * b.d = b.n * a.d

\* 0.3 * 255
DEFAULT_BACKGROUND_COLOR == Rat(153, 2)

\* v / (m + eps) * 255 with eps = 1e-15: for m # 0 the eps is below the
\* tolerance and the quotient is taken exactly; for m = 0 the divisor is eps.
Scale255(v, m) ==
    IF m.n # 0
      THEN IF m.n > 0 THEN [n |-> v.n * m.d * SCALE_MAX, d |-> v.d * m.n, e |-> v.e]
                      ELSE [n |-> -(v.n * m.d * SCALE_MAX), d |-> v.d * (-m.n), e |-> v.e]
      ELSE IF v.n = 0 THEN Num(0)
                      ELSE [n |-> v.n * SCALE_MAX, d |-> v.d, e |-> 1]

\* v / 255
Div255(v) == [v EXCEPT !.d = v.d * SCALE_MAX]

MaxOf(S) == CHOOSE v \in S : \A w \in S : ~Less(v, w)

----------------------------------------------------------------------------
(* Integer helpers *)

\* floor(a / b), b > 0
FloorDiv(a, b) == a \div b

\* ceil(a / b), b > 0
CeilDiv(a, b) == -((-a) \div b)

\* the values round(a / b) can take (b > 0).  Python rounds the double product
\* half-to-even; on an exact half the product may sit one ulp on either side,
\* so both neighbours are possible there.
RoundChoices(a, b) ==
    IF (2 * a) % (2 * b) = b
      THEN {FloorDiv(a, b), FloorDiv(a, b) + 1}
      ELSE {FloorDiv(2 * a + b, 2 * b)}

RECURSIVE SqrtUp(_, _)
SqrtUp(N, r) == IF (r + 1) * (r + 1) > N THEN r ELSE SqrtUp(N, r + 1)

\* np.floor(np.sqrt(N)): sqrt is correctly rounded, so its floor is the integer
\* square root for every N a double holds exactly
FloorSqrt(N) == SqrtUp(N, 0)

----------------------------------------------------------------------------
(* best_grid *)

\* np.ceil(N / rows) for rows > 0 (rows = 0 is handled by the caller)
BestGridColsBroken(N, rows) == FloorDiv(N, rows)

BestGridCols(N, rows) == CeilDiv(N, rows)

\* best_grid(N): "nan" stands for the ValueError of int(nan), N = 0 (0 / 0.0)
best_grid(N) ==
    LET rows == FloorSqrt(N)
    IN  IF rows = 0 THEN [status |-> "nan", rows |-> 0, cols |-> 0]
        ELSE [status |-> "ok", rows |-> rows, cols |-> BestGridCols(N, rows)]

----------------------------------------------------------------------------
(* Input samples *)

Patterns == {"zero", "mixed", "nonpos"}

\* sample (i, j) of image / channel k of a pattern
Sample(pat, k, i, j) ==
    CASE pat = "zero"   -> 0
      [] pat = "mixed"  -> IF (k + i + j) % 2 = 0 THEN k + i + 1 ELSE -(j + 2)
      [] pat = "nonpos" -> -(k + i + j)

FloatTypes == {"float32", "float64"}

DTypes == {"float64", "int32"}

Keys == {-1, KEY_ESCAPE, KEY_Q, 97}

\* the wait argument: the booleans True and False, or a number of milliseconds
WaitArgs == {[bool |-> TRUE, b |-> TRUE, ms |-> 0], [bool |-> TRUE, b |-> FALSE, ms |-> 0],
             [bool |-> FALSE, b |-> FALSE, ms |-> 5]}

Paddings == {0, 1, 250}

----------------------------------------------------------------------------
(* Arrays *)

NoArr == [shape |-> <<>>, dtype |-> "none", bg |-> <<>>, blocks |-> <<>>]

Min2(a, b) == IF a < b THEN a ELSE b

\* source matrix of c channels (c = 0: no channel axis) from a pattern
SrcOf(h, w, c, pat, seed) ==
    [sh |-> h, sw |-> w,
     px |-> [p \in (0 .. h - 1) \X (0 .. w - 1) |->
               [k \in 1 .. (IF c = 0 THEN 1 ELSE c) |->
                  Num(Sample(pat, seed + k - 1, p[1], p[2]))]]]

\* an unresized block showing a whole source matrix at (top, left)
BlockOf(src, top, left) ==
    [top |-> top, left |-> left, h |-> src.sh, w |-> src.sw,
     fn |-> 1, fd |-> 1, src |-> src]

\* a plain array of shape [h, w] (c = 0) or [h, w, c]
ArrOf(h, w, c, dtype, pat, seed) ==
    [shape |-> IF c = 0 THEN <<h, w>> ELSE <<h, w, c>>, dtype |-> dtype,
     bg |-> <<>>, blocks |-> <<BlockOf(SrcOf(h, w, c, pat, seed), 0, 0)>>]

\* INTER_NEAREST: destination index y reads source index min(floor(y / f), n - 1)
SrcIndex(y, fn, fd, n) == Min2(FloorDiv(y * fd, fn), n - 1)

\* the source positions a block shows
HitPositions(b) ==
    {SrcIndex(y, b.fn, b.fd, b.src.sh) : y \in 0 .. b.h - 1}
      \X {SrcIndex(x, b.fn, b.fd, b.src.sw) : x \in 0 .. b.w - 1}

\* the sample values of a block
BlockValues(b) ==
    UNION {{b.src.px[p][k] : k \in DOMAIN b.src.px[p]} : p \in HitPositions(b)}

\* the sample values written into an array, and its background if it has one
ArrValues(a) ==
    UNION {BlockValues(a.blocks[i]) : i \in DOMAIN a.blocks}
      \cup {a.bg[k] : k \in DOMAIN a.bg}

\* the sample at (y, x): the last block written there, else the background
CoveredBy(b, y, x) ==
    /\ b.top <= y /\ y < b.top + b.h
    /\ b.left <= x /\ x < b.left + b.w

At(a, y, x) ==
    LET hits == {i \in DOMAIN a.blocks : CoveredBy(a.blocks[i], y, x)}
    IN  IF hits = {} THEN a.bg
        ELSE LET b == a.blocks[CHOOSE i \in hits : \A j \in hits : j <= i]
             IN  b.src.px[<<SrcIndex(y - b.top, b.fn, b.fd, b.src.sh),
                            SrcIndex(x - b.left, b.fn, b.fd, b.src.sw)>>]

----------------------------------------------------------------------------
(* cv2.resize(img, None, fx = f, fy = f, interpolation = INTER_NEAREST),   *)
(* f = fn / fd, with the destination size (h, w) the rounding produced.    *)
(* OpenCV asserts f > 0 and a non-empty destination; a trailing channel    *)
(* axis of length 1 is not kept.                                           *)

ResizeOk(fn, h, w) == fn > 0 /\ h > 0 /\ w > 0

Resized(a, fn, fd, h, w) ==
    [a EXCEPT !.shape = IF Len(a.shape) = 3 /\ a.shape[3] # 1
                          THEN <<h, w, a.shape[3]>> ELSE <<h, w>>,
              !.blocks = <<[a.blocks[1] EXCEPT !.h = h, !.w = w,
                                               !.fn = fn, !.fd = fd]>>]

----------------------------------------------------------------------------
(* visualize_grayscale_negative_values *)

\* np.where(image < 0, -image, 0)
BlueOf(v) == IF IsNeg(v) THEN Neg(v) ELSE Num(0)

\* np.where(image < 0, 0, image)
RedOf(v) == IF IsNeg(v) THEN Num(0) ELSE v

EncodeSampleSwapped(t) == <<RedOf(t[1]), Num(0), BlueOf(t[1])>>

\* np.stack([blue, green, red], axis = -1) of one sample
EncodeSample(t) == <<BlueOf(t[1]), Num(0), RedOf(t[1])>>

\* an elementwise operation on every sample (each a tuple of channels):
\* "scale": t / (m + eps) * 255, "div255": t / 255, "encode": the sign encoding
Elementwise(f, m, t) ==
    CASE f = "scale"  -> [k \in DOMAIN t |-> Scale255(t[k], m)]
      [] f = "div255" -> [k \in DOMAIN t |-> Div255(t[k])]
      [] f = "encode" -> EncodeSample(t)

MapSrc(f, m, src) ==
    [src EXCEPT !.px = [p \in DOMAIN src.px |-> Elementwise(f, m, src.px[p])]]

MapArr(f, m, a) ==
    [a EXCEPT !.bg = IF a.bg = <<>> THEN <<>> ELSE Elementwise(f, m, a.bg),
              !.blocks = [i \in DOMAIN a.blocks |->
                            [a.blocks[i] EXCEPT !.src = MapSrc(f, m, a.blocks[i].src)]]]

visualize_grayscale_negative_values(a) ==
    IF a.dtype \notin FloatTypes
      THEN [status |-> "AssertionError: Image is not floating point", image |-> NoArr]
    ELSE LET shape3 == IF Len(a.shape) = 2 THEN a.shape \o <<1>> ELSE a.shape
         IN  IF shape3[3] # 1
               THEN [status |-> "AssertionError: Image is already 3-channel",
                     image |-> NoArr]
               ELSE [status |-> "ok",
                     image |-> [MapArr("encode", Num(0), a) EXCEPT
                                  !.shape = <<shape3[1], shape3[2], 3>>]]

----------------------------------------------------------------------------
(* Inputs *)

Dims == 1 .. MaxDim

\* image batches handed to show_images_grid: [N, H, W], [N, H, W, C], and the
\* shapes of other ndim
GridShapes ==
    {<<n, h, w>> : n \in 0 .. MaxN, h \in Dims, w \in Dims}
      \cup {<<n, h, w, c>> : n \in 0 .. MaxN, h \in Dims, w \in Dims, c \in {1, 3}}
      \cup {<<h, w>> : h \in Dims, w \in Dims}
      \cup {<<n, 1, 1, 1, 1>> : n \in 1 .. MaxN}
      \cup {<<4, 10, 10, 1>>, <<4, 10, 10>>}

GridArgs ==
    [images : [shape : GridShapes, dtype : DTypes, pat : Patterns],
     padding : Paddings, resize_to_fit : BOOLEAN, normalize : BOOLEAN,
     visualize_negative : BOOLEAN]

\* images handed to show_image and to visualize_grayscale_negative_values:
\* [H, W] (c = 0) or [H, W, C]
ImageArgs ==
    [h : Dims, w : Dims, c : {0, 1, 3}, dtype : DTypes \cup {"float32"},
     pat : Patterns, seed : {0, 1},
     resize_to_fit : BOOLEAN, normalize : BOOLEAN, visualize_negative : BOOLEAN]

NoGeo == [shape |-> <<>>]

Idle ==
    /\ err = "" /\ geo = NoGeo /\ grid_image = NoArr /\ cell = 0
    /\ resizeCalls = 0 /\ imshowCalls = 0 /\ shown = NoArr
    /\ wait_ms = -1 /\ key = -1 /\ result = FALSE

InitGrid ==
    /\ op = "grid" /\ args \in GridArgs /\ pc = "g_assert" /\ image = NoArr /\ Idle

InitShow ==
    /\ op = "image" /\ args \in ImageArgs /\ pc = "s_assert" /\ Idle
    /\ image = ArrOf(args.h, args.w, args.c, args.dtype, args.pat, args.seed)

InitEncode ==
    /\ op = "encode"
    /\ args \in {a \in ImageArgs : ~a.resize_to_fit /\ ~a.normalize /\ a.visualize_negative}
    /\ pc = "v_call" /\ Idle
    /\ image = ArrOf(args.h, args.w, args.c, args.dtype, args.pat, args.seed)

InitPlan ==
    /\ op = "best_grid" /\ args \in [N : 1 .. MaxGridN] /\ pc = "b_call"
    /\ image = NoArr /\ Idle

Raise(msg) == pc' = "error" /\ err' = msg

----------------------------------------------------------------------------
(* show_images_grid *)

\* lines 65-66: asarray, assert ndim in [3, 4]
NdimOk(shape) == Len(shape) \in {3, 4}

GridAssert ==
    /\ pc = "g_assert"
    /\ IF NdimOk(args.images.shape)
         THEN pc' = "g_squeeze" /\ err' = err
         ELSE Raise("AssertionError: Images - wrong ndim")
    /\ UNCHANGED <<op, args, geo, grid_image, cell, image, resizeCalls,
                   imshowCalls, shown, wait_ms, key, result>>

\* line 67: images.squeeze(axis=-1) removes the last axis, which must have length 1
SqueezeOk(shape) == shape[Len(shape)] = 1

Squeezed(shape) == SubSeq(shape, 1, Len(shape) - 1)

GridSqueeze ==
    /\ pc = "g_squeeze"
    /\ IF SqueezeOk(args.images.shape)
         THEN /\ geo' = [shape |-> Squeezed(args.images.shape)]
              /\ pc' = "g_plan" /\ err' = err
         ELSE /\ Raise("ValueError: cannot select an axis to squeeze out")
              /\ geo' = geo
    /\ UNCHANGED <<op, args, grid_image, cell, image, resizeCalls,
                   imshowCalls, shown, wait_ms, key, result>>

\* lines 73-87: the cell size.  height_scaling = hs_num / hs_den, and
\* width_scaling is the same number.
Geometry(shape, n_rows, n_cols, padding, resize_to_fit, new_height, new_width) ==
    [shape |-> shape, n_images |-> shape[1], n_rows |-> n_rows, n_cols |-> n_cols,
     img_height |-> shape[2], img_width |-> shape[3],
     total_row_padding |-> (n_rows + 1) * padding,
     total_col_padding |-> (n_cols + 1) * padding,
     hs_num |-> DESIRED_HEIGHT - (n_rows + 1) * padding,
     hs_den |-> n_rows * shape[2],
     new_height |-> new_height, new_width |-> new_width]

\* lines 80-87: the values new_height and new_width can take
NewHeights(shape, n_rows, padding, resize_to_fit) ==
    IF resize_to_fit
      THEN RoundChoices((DESIRED_HEIGHT - (n_rows + 1) * padding) * shape[2],
                        n_rows * shape[2])
      ELSE {shape[2]}

NewWidths(shape, n_rows, padding, resize_to_fit) ==
    IF resize_to_fit
      THEN RoundChoices((DESIRED_HEIGHT - (n_rows + 1) * padding) * shape[3],
                        n_rows * shape[2])
      ELSE {shape[3]}

\* lines 68-87: n_images, best_grid, the unpacking of shape[1:], the geometry
GridPlan ==
    /\ pc = "g_plan"
    /\ LET shape == geo.shape
           g == best_grid(shape[1])
       IN  IF g.status # "ok"
             THEN Raise("ValueError: cannot convert float NaN to integer") /\ geo' = geo
           ELSE IF Len(shape) # 3
             THEN Raise("ValueError: not enough values to unpack") /\ geo' = geo
           ELSE /\ \E nh \in NewHeights(shape, g.rows, args.padding, args.resize_to_fit),
                      nw \in NewWidths(shape, g.rows, args.padding, args.resize_to_fit) :
                     geo' = Geometry(shape, g.rows, g.cols, args.padding,
                                     args.resize_to_fit, nh, nw)
                /\ pc' = "g_alloc" /\ err' = err
    /\ UNCHANGED <<op, args, grid_image, cell, image, resizeCalls,
                   imshowCalls, shown, wait_ms, key, result>>

\* lines 89-90: the shape of the canvas
CanvasShape(g) ==
    <<g.n_rows * g.new_height + g.total_row_padding,
      g.n_cols * g.new_width + g.total_col_padding>>

\* np.ones(shape) * DEFAULT_BACKGROUND_COLOR
GridAlloc ==
    /\ pc = "g_alloc"
    /\ LET shape == CanvasShape(geo)
       IN  IF shape[1] < 0 \/ shape[2] < 0
             THEN /\ Raise("ValueError: negative dimensions are not allowed")
                  /\ UNCHANGED <<grid_image, cell>>
             ELSE /\ grid_image' = [shape |-> shape, dtype |-> "float64",
                                    bg |-> <<DEFAULT_BACKGROUND_COLOR>>, blocks |-> <<>>]
                  /\ cell' = 0
                  /\ pc' = "g_loop" /\ err' = err
    /\ UNCHANGED <<op, args, geo, image, resizeCalls,
                   imshowCalls, shown, wait_ms, key, result>>

\* lines 92-93: the grid position of the k-th iteration of the two loops
RowOf(g, k) == k \div g.n_cols

ColOf(g, k) == k % g.n_cols

CellIndexByRows(g, row, col) == row * g.n_rows + col

\* line 94
CellIndex(g, row, col) == row * g.n_cols + col

\* lines 99-100
BaseHeight(g, padding, row) == (row + 1) * padding + row * g.new_height

BaseWidthOnePad(g, padding, col) == padding + col * g.new_width

BaseWidth(g, padding, col) == (col + 1) * padding + col * g.new_width

\* images[n, :, :]
BatchImage(images, g, n) ==
    ArrOf(g.img_height, g.img_width, 0, images.dtype, images.pat, n)

\* lines 104-106: image / (np.max(np.abs(image)) + eps) * 255
NormalizeAbs(a) ==
    LET m == MaxOf({AbsV(v) : v \in ArrValues(a)})
    IN  [MapArr("scale", m, a) EXCEPT !.dtype = "float64"]

\* a[top : top + h, left : left + w], the slice clipped to the array
Clip(lo, len, size) == Min2(lo + len, size) - Min2(lo, size)

\* line 108: grid_image[slice_h, slice_w] = image (image broadcast to the slice)
AssignOk(canvas, top, left, h, w, img) ==
    /\ img.shape[1] \in {1, Clip(top, h, canvas.shape[1])}
    /\ img.shape[2] \in {1, Clip(left, w, canvas.shape[2])}

Assigned(canvas, top, left, h, w, img) ==
    [canvas EXCEPT !.blocks =
        Append(@, [img.blocks[1] EXCEPT !.top = top, !.left = left,
                                        !.h = Clip(top, h, canvas.shape[1]),
                                        !.w = Clip(left, w, canvas.shape[2])])]

SkippedEarly(g, n) == n >= g.n_images - 1

\* line 95: the cells that get no image
Skipped(g, n) == n >= g.n_images

\* lines 92-108: one iteration of the loops
GridCell ==
    /\ pc = "g_loop"
    /\ cell < geo.n_rows * geo.n_cols
    /\ LET row == RowOf(geo, cell)
           col == ColOf(geo, cell)
           n   == CellIndex(geo, row, col)
           raw == BatchImage(args.images, geo, n)
           img == IF args.resize_to_fit
                    THEN Resized(raw, geo.hs_num, geo.hs_den,
                                 geo.new_height, geo.new_width)
                    ELSE raw
           top  == BaseHeight(geo, args.padding, row)
           left == BaseWidth(geo, args.padding, col)
           fin  == IF args.normalize THEN NormalizeAbs(img) ELSE img
       IN  IF Skipped(geo, n)
             THEN /\ cell' = cell + 1
                  /\ UNCHANGED <<pc, err, grid_image, resizeCalls>>
           ELSE /\ resizeCalls' = IF args.resize_to_fit THEN resizeCalls + 1
                                                        ELSE resizeCalls
                /\ IF args.resize_to_fit
                        /\ ~ResizeOk(geo.hs_num, geo.new_height, geo.new_width)
                     THEN /\ Raise("cv2.error: resize")
                          /\ UNCHANGED <<grid_image, cell>>
                   ELSE IF ~AssignOk(grid_image, top, left, geo.new_height,
                                     geo.new_width, fin)
                     THEN /\ Raise("ValueError: could not broadcast input array")
                          /\ UNCHANGED <<grid_image, cell>>
                   ELSE /\ grid_image' = Assigned(grid_image, top, left,
                                                  geo.new_height, geo.new_width, fin)
                        /\ cell' = cell + 1
                        /\ UNCHANGED <<pc, err>>
    /\ UNCHANGED <<op, args, geo, image, imshowCalls, shown, wait_ms, key, result>>

\* line 109: show_image(grid_image, wait=wait, visualize_negative=visualize_negative)
GridShow ==
    /\ pc = "g_loop"
    /\ cell = geo.n_rows * geo.n_cols
    /\ image' = grid_image
    /\ pc' = "s_assert"
    /\ UNCHANGED <<op, args, err, geo, grid_image, cell, resizeCalls,
                   imshowCalls, shown, wait_ms, key, result>>

----------------------------------------------------------------------------
(* show_image *)

\* the keyword arguments of the running show_image call: line 109 passes only
\* wait and visualize_negative, so normalize and resize_to_fit are the defaults
ShowNormalizeArg == op = "image" /\ args.normalize

ShowResizeArg == op = "image" /\ args.resize_to_fit

\* lines 38-39: asarray, assert dtype in [float32, float64]
IsFloat(a) == a.dtype \in FloatTypes

ShowAssert ==
    /\ pc = "s_assert"
    /\ IF IsFloat(image)
         THEN pc' = "s_normalize" /\ err' = err
         ELSE Raise("AssertionError: Image is not floating point")
    /\ UNCHANGED <<op, args, geo, grid_image, cell, image, resizeCalls,
                   imshowCalls, shown, wait_ms, key, result>>

\* line 42: the divisor np.max(image)
Normalizer(a) == MaxOf(ArrValues(a))

\* lines 40-42: image / (np.max(image) + eps) * 255
NormalizeMax(a) ==
    MapArr("scale", Normalizer(a), a)

ShowNormalize ==
    /\ pc = "s_normalize"
    /\ image' = IF ShowNormalizeArg THEN NormalizeMax(image) ELSE image
    /\ pc' = "s_resize"
    /\ UNCHANGED <<op, args, err, geo, grid_image, cell, resizeCalls,
                   imshowCalls, shown, wait_ms, key, result>>

\* lines 43-45: height_scaling = DESIRED_HEIGHT / image.shape[0]
ShowResize ==
    /\ pc = "s_resize"
    /\ IF ShowResizeArg
         THEN /\ resizeCalls' = resizeCalls + 1
              /\ \E nh \in RoundChoices(DESIRED_HEIGHT * image.shape[1], image.shape[1]),
                    nw \in RoundChoices(DESIRED_HEIGHT * image.shape[2], image.shape[1]) :
                   IF ResizeOk(DESIRED_HEIGHT, nh, nw)
                     THEN /\ image' = Resized(image, DESIRED_HEIGHT, image.shape[1], nh, nw)
                          /\ pc' = "s_visualize" /\ err' = err
                     ELSE /\ Raise("cv2.error: resize")
                          /\ image' = image
         ELSE /\ pc' = "s_visualize"
              /\ UNCHANGED <<err, image, resizeCalls>>
    /\ UNCHANGED <<op, args, geo, grid_image, cell,
                   imshowCalls, shown, wait_ms, key, result>>

\* line 46: len(image[image < 0]) > 0
HasNegative(a) == \E v \in ArrValues(a) : IsNeg(v)

\* lines 46-48
ShowVisualize ==
    /\ pc = "s_visualize"
    /\ IF args.visualize_negative /\ HasNegative(image)
         THEN LET r == visualize_grayscale_negative_values(image)
              IN  IF r.status = "ok"
                    THEN image' = r.image /\ pc' = "s_imshow" /\ err' = err
                    ELSE Raise(r.status) /\ image' = image
         ELSE pc' = "s_imshow" /\ UNCHANGED <<err, image>>
    /\ UNCHANGED <<op, args, geo, grid_image, cell, resizeCalls,
                   imshowCalls, shown, wait_ms, key, result>>

\* line 49: cv2.imshow('image', image / 255)
ShowImshow ==
    /\ pc = "s_imshow"
    /\ shown' = MapArr("div255", Num(0), image)
    /\ imshowCalls' = imshowCalls + 1
    /\ pc' = "s_waitkey"
    /\ UNCHANGED <<op, args, err, geo, grid_image, cell, image, resizeCalls,
                   wait_ms, key, result>>

\* line 50
WaitMs(wait) == IF wait.bool THEN (IF wait.b THEN 0 ELSE 1) ELSE wait.ms

QuitKeys == {KEY_ESCAPE, KEY_Q}

\* line 51: not cv2.waitKey(wait_ms) in [27, ord('q')]
ShowResult(k) == ~(k \in QuitKeys)

\* lines 50-51: the wait argument and the key the window returns (-1: none)
ShowWaitKey ==
    /\ pc = "s_waitkey"
    /\ \E wait \in WaitArgs, k \in Keys :
         /\ wait_ms' = WaitMs(wait)
         /\ key' = k
         /\ result' = ShowResult(k)
    /\ pc' = "done"
    /\ UNCHANGED <<op, args, err, geo, grid_image, cell, image, resizeCalls,
                   imshowCalls, shown>>

----------------------------------------------------------------------------
(* direct calls of visualize_grayscale_negative_values and best_grid *)

VisualizeCall ==
    /\ pc = "v_call"
    /\ LET r == visualize_grayscale_negative_values(image)
       IN  IF r.status = "ok"
             THEN image' = r.image /\ pc' = "done" /\ err' = err
             ELSE Raise(r.status) /\ image' = image
    /\ UNCHANGED <<op, args, geo, grid_image, cell, resizeCalls,
                   imshowCalls, shown, wait_ms, key, result>>

BestGridCall ==
    /\ pc = "b_call"
    /\ LET g == best_grid(args.N)
       IN  geo' = [n_rows |-> g.rows, n_cols |-> g.cols]
    /\ pc' = "done"
    /\ UNCHANGED <<op, args, err, grid_image, cell, image, resizeCalls,
                   imshowCalls, shown, wait_ms, key, result>>

----------------------------------------------------------------------------
(* Specifications *)

NextGrid ==
    \/ GridAssert \/ GridSqueeze \/ GridPlan \/ GridAlloc \/ GridCell \/ GridShow

NextShow ==
    \/ ShowAssert \/ ShowNormalize \/ ShowResize \/ ShowVisualize
    \/ ShowImshow \/ ShowWaitKey

Init == InitGrid \/ InitShow \/ InitEncode \/ InitPlan

Next == NextGrid \/ NextShow \/ VisualizeCall \/ BestGridCall

\* every entry point
Spec == Init /\ [][Next]_vars

\* show_images_grid calls
SpecGrid == InitGrid /\ [][NextGrid \/ NextShow]_vars

\* show_image calls
SpecShow == InitShow /\ [][NextShow]_vars

\* visualize_grayscale_negative_values calls
SpecEncode == InitEncode /\ [][VisualizeCall]_vars

\* best_grid calls
SpecPlan == InitPlan /\ [][BestGridCall]_vars

----------------------------------------------------------------------------
(* Properties *)

InShow == op \in {"grid", "image"}

\* C1: show_image and show_images_grid return True exactly when the key the
\* window returned is escape (27) or 'q', and False for every other key and
\* for no key.
C1_TrueIffQuitKey ==
    (InShow /\ pc = "done") => (result = TRUE <=> key \in {27, 113})

\* a batch [N, H, W] or [N, H, W, 1] with N, H, W >= 1
WellFormedBatch(shape) ==
    /\ Len(shape) \in {3, 4}
    /\ \A i \in 1 .. 3 : shape[i] >= 1
    /\ Len(shape) = 4 => shape[4] = 1

Planned == pc \in {"g_alloc", "g_loop"} \/ grid_image # NoArr

ShapeErrors ==
    {"AssertionError: Images - wrong ndim",
     "ValueError: cannot select an axis to squeeze out",
     "ValueError: not enough values to unpack",
     "ValueError: cannot convert float NaN to integer"}

\* C2: show_images_grid accepts every well-formed batch [N, H, W] and
\* [N, H, W, 1]: no error is raised on its shape, and the assembly works with
\* n_images = N, img_height = H, img_width = W.
C2_BothShapesAccepted ==
    (op = "grid" /\ WellFormedBatch(args.images.shape)) =>
        /\ err \notin ShapeErrors
        /\ Planned => /\ geo.n_images = args.images.shape[1]
                      /\ geo.img_height = args.images.shape[2]
                      /\ geo.img_width = args.images.shape[3]

\* the precondition violations of a call
Violates ==
    \/ /\ op = "grid"
       /\ \/ args.images.dtype \notin FloatTypes
          \/ args.images.shape[1] = 0
          \/ Len(args.images.shape) \notin {3, 4}
          \/ Len(args.images.shape) = 4 /\ args.images.shape[4] # 1
    \/ /\ op = "image"
       /\ \/ args.dtype \notin FloatTypes
          \/ args.c \notin {0, 1}

\* C3: a call that violates a precondition (samples not floating point, empty
\* batch, channel count other than 1, ndim not 3 or 4) ends in an error and
\* never presents a canvas.
C3_ViolationsFail ==
    (InShow /\ Violates) => (imshowCalls = 0 /\ pc # "done")

\* C4: with resize_to_fit, a height_scaling that is not positive is rejected
\* before the resize primitive is invoked for any image.
C4_RejectedBeforeResize ==
    (op = "grid" /\ args.resize_to_fit /\ Planned /\ geo.hs_num <= 0) =>
        resizeCalls = 0

AssemblyDone == op = "grid" /\ grid_image # NoArr /\ cell = geo.n_rows * geo.n_cols

\* C5: the window is presented at most once, never before an error, and only
\* after the validations, the placing of all N images and the sign encoding.
C5_NoPartialSuccess ==
    /\ imshowCalls <= 1
    /\ pc = "error" => imshowCalls = 0
    /\ imshowCalls = 1 =>
         /\ pc \in {"s_waitkey", "done"} /\ err = ""
         /\ image.dtype \in FloatTypes
         /\ (args.visualize_negative /\ HasNegative(image)) =>
               (Len(image.shape) = 3 /\ image.shape[3] = 3)
         /\ op = "grid" => /\ AssemblyDone
                           /\ Len(grid_image.blocks) = geo.n_images
                           /\ geo.n_images = args.images.shape[1]

C5_Presented ==
    /\ op = "grid" /\ pc = "done" /\ imshowCalls = 1
    /\ geo.n_images = 7 /\ Len(grid_image.blocks) = 7
    /\ Len(image.shape) = 3 /\ image.shape[3] = 3

\* C6: for N in 1..100 best_grid(N) = (rows, cols) with rows = floor(sqrt(N)),
\* cols = ceil(N / rows), rows >= 1, rows * cols >= N and cols >= rows.
C6_BestGrid ==
    (op = "best_grid" /\ pc = "done") =>
        LET N == args.N
            rows == geo.n_rows
            cols == geo.n_cols
        IN  /\ rows >= 1
            /\ rows * rows <= N /\ N < (rows + 1) * (rows + 1)
            /\ rows * cols >= N /\ rows * (cols - 1) < N
            /\ cols >= rows

C6_Seven ==
    /\ op = "best_grid" /\ pc = "done" /\ args.N = 7
    /\ geo.n_rows = 2 /\ geo.n_cols = 4

\* the canvas exists
Allocated == op = "grid" /\ grid_image # NoArr

\* the rectangle of grid cell (row, col): top, left, height, width
CellRect(row, col) ==
    [top |-> (row + 1) * args.padding + row * geo.new_height,
     left |-> (col + 1) * args.padding + col * geo.new_width,
     h |-> geo.new_height, w |-> geo.new_width]

RectOf(b) == [top |-> b.top, left |-> b.left, h |-> b.h, w |-> b.w]

RectsMeet(r, q) ==
    /\ r.h > 0 /\ r.w > 0 /\ q.h > 0 /\ q.w > 0
    /\ r.top < q.top + q.h /\ q.top < r.top + r.h
    /\ r.left < q.left + q.w /\ q.left < r.left + r.w

RectInside(r, shape) ==
    /\ 0 <= r.top /\ r.top + r.h <= shape[1]
    /\ 0 <= r.left /\ r.left + r.w <= shape[2]

\* the layout of the canvas and of the images copied so far, with the canvas
\* of 4 images of 10x10, padding 1, no resize, being side x side
PlacementWith(side) ==
    Allocated =>
        LET blocks == grid_image.blocks
        IN  /\ grid_image.shape =
                 <<geo.n_rows * geo.new_height + (geo.n_rows + 1) * args.padding,
                   geo.n_cols * geo.new_width + (geo.n_cols + 1) * args.padding>>
            /\ Len(blocks) <= geo.n_images
            /\ AssemblyDone => Len(blocks) = geo.n_images
            /\ \A k \in DOMAIN blocks :
                 /\ RectOf(blocks[k]) =
                      CellRect((k - 1) \div geo.n_cols, (k - 1) % geo.n_cols)
                 /\ RectInside(RectOf(blocks[k]), grid_image.shape)
                 /\ ~args.normalize =>
                      blocks[k].src = SrcOf(args.images.shape[2], args.images.shape[3],
                                            0, args.images.pat, k - 1)
                 /\ \A j \in DOMAIN blocks :
                      j # k => ~RectsMeet(RectOf(blocks[j]), RectOf(blocks[k]))
            /\ (args.images.shape = <<4, 10, 10, 1>> /\ args.padding = 1
                  /\ ~args.resize_to_fit) => grid_image.shape = <<side, side>>

\* C7 (as stated): the canvas is (rows*cellHeight + (rows+1)*padding) by
\* (cols*cellWidth + (cols+1)*padding); the k-th image copied is image k - 1,
\* copied into the rectangle of cell ((k-1) div cols, (k-1) mod cols); the
\* rectangles lie inside the canvas and do not overlap; once the loops end all
\* N images are placed; 4 images of 10x10 with padding 1 and no resize give a
\* 22x22 canvas.
C7_PlacementStated == PlacementWith(22)

\* C7 (amended): the same layout, with 4 images of 10x10, padding 1 and no
\* resize giving a 23x23 canvas (2*10 + 3*1).
C7_Placement == PlacementWith(23)

C7_FourTens ==
    /\ AssemblyDone /\ pc = "done"
    /\ args.images.shape = <<4, 10, 10, 1>> /\ args.padding = 1
    /\ ~args.resize_to_fit /\ args.images.pat = "mixed"
    /\ grid_image.shape = <<23, 23>> /\ Len(grid_image.blocks) = 4
    /\ RectOf(grid_image.blocks[4]) = [top |-> 12, left |-> 12, h |-> 10, w |-> 10]

PixelCheckMax == 500
\* canvases of up to this many positions are also read position by position

Cells == (0 .. geo.n_rows - 1) \X (0 .. geo.n_cols - 1)

UnusedCells == {c \in Cells : c[1] * geo.n_cols + c[2] >= geo.n_images}

\* no image was written into any position of the rectangle
Untouched(r) ==
    \A k \in DOMAIN grid_image.blocks : ~RectsMeet(RectOf(grid_image.blocks[k]), r)

InRect(r, y, x) ==
    /\ r.top <= y /\ y < r.top + r.h
    /\ r.left <= x /\ x < r.left + r.w

MaxV(a, b) == IF Less(a, b) THEN b ELSE a

\* C9: for a single-channel floating-point image [H, W] or [H, W, 1] the
\* encoder returns an [H, W, 3] image with blue = max(-v, 0), green = 0 and
\* red = max(v, 0) for every sample v.
C9_SignEncoding ==
    (op = "encode" /\ args.dtype \in FloatTypes /\ args.c \in {0, 1}) =>
        /\ pc # "error"
        /\ pc = "done" =>
             /\ image.shape = <<args.h, args.w, 3>>
             /\ \A i \in 0 .. args.h - 1, j \in 0 .. args.w - 1 :
                  LET v == Num(Sample(args.pat, args.seed, i, j))
                  IN  At(image, i, j) = <<MaxV(Neg(v), Num(0)), Num(0), MaxV(v, Num(0))>>

C9_Encoded ==
    /\ op = "encode" /\ pc = "done" /\ args.pat = "mixed" /\ args.h = 2 /\ args.w = 2
    /\ At(image, 0, 0) = <<Num(0), Num(0), Num(Sample("mixed", args.seed, 0, 0))>>
    /\ \E i \in 0 .. 1, j \in 0 .. 1 : IsNeg(Num(Sample("mixed", args.seed, i, j)))
                                          /\ ~IsZero(At(image, i, j)[1])

\* the largest |sample| is 255, or every sample is 0
Bounded255(values) ==
    \/ \A v \in values : IsZero(v)
    \/ Same(MaxOf({AbsV(v) : v \in values}), Num(255))

\* C10: after normalisation the largest absolute sample is 255 for an image
\* that is not all zero, and the image is all zero if it was all zero, both
\* per image in show_images_grid and for the whole buffer in show_image.
C10_NormalizedTo255 ==
    /\ (op = "image" /\ args.normalize /\ pc = "s_resize") =>
          /\ Bounded255(ArrValues(image))
          /\ (\A v \in ArrValues(image) : IsZero(v)) <=> args.pat = "zero"
    /\ (Allocated /\ args.normalize) =>
          \A k \in DOMAIN grid_image.blocks : Bounded255(BlockValues(grid_image.blocks[k]))

====
